---- MODULE Spec2Model ----
(***************************************************************************)
(* Model of splib07-loader: the archive index (table-of-contents and       *)
(* datatable parsing, index generation), the memoized cached index, and    *)
(* the library facade's load dispatch.                                     *)
(*                                                                         *)
(* Strings that the code takes apart are sequences of tokens: a path is a  *)
(* sequence of segments, a segment a sequence of tokens ("datatable_",     *)
(* "splib07a", ".html"); a cell's text is a sequence of characters.        *)
(* A Python dict is a record [keys, map]: keys in insertion order.         *)
(* A call's outcome is a record [exc, site, value, row, decoded]: exc is   *)
(* "None" for a return, else the exception's class; site names the raise.  *)
(***************************************************************************)
EXTENDS Integers, Sequences, FiniteSets, TLC

VARIABLES
    toc,        \* <root>/indexes/table_of_contents.html: its <li> items, or missing
    fsel,       \* which document each datatable file of the archive holds
    docp,       \* the document handed to _read_datatable: its parameters
    ret,        \* the outcome of the last call: [op, res]
    cache,      \* functools.cache of load_cached_index: None, or Some(instance)
    heap,       \* the Splib07Index objects pickle.load has created, by identity
    pc,         \* each thread's position in load_cached_index
    cur,        \* each thread's call in progress: [late, inst]
    lastcall,   \* each thread's last finished call: [status, late, loaded, inst]
    held,       \* the instance each thread holds (0: none)
    firstInst,  \* the instance the first successful call returned
    ctl,        \* [maxActive, ncalls, nmut]: scheduling and the model's counters
    lib,        \* a library handle: [root, memo], memo the results functools.cache holds
    call,       \* the handle's last call: [op, args, res, trace]
    cli         \* a run of scripts/generate_index.py: [argv, out0, out, status, log]

ivars == <<toc, fsel, docp, ret, cli>>

cvars == <<cache, heap, pc, cur, lastcall, held, firstInst, ctl>>

lvars == <<lib, call>>

vars == <<toc, fsel, docp, ret, cache, heap, pc, cur, lastcall, held, firstInst, ctl,
          lib, call, cli>>

----------------------------------------------------------------------------
(* Bounds of the model. *)

MaxTocItems == 3
MaxTables == 9
MaxCells == 11
NumThreads == 2
MaxCalls == 3
MaxMutations == 1
MaxData == 3

----------------------------------------------------------------------------
(* Enumerations. *)

SamplingValues ==
    { "splib07a", "splib07b", "splib07b_cvASD",
      "splib07b_cvAVIRISc1995", "splib07b_cvAVIRISc1996", "splib07b_cvAVIRISc1997",
      "splib07b_cvAVIRISc1998", "splib07b_cvAVIRISc1999", "splib07b_cvAVIRISc2000",
      "splib07b_cvAVIRISc2001", "splib07b_cvAVIRISc2005", "splib07b_cvAVIRISc2006",
      "splib07b_cvAVIRISc2009", "splib07b_cvAVIRISc2010", "splib07b_cvAVIRISc2011",
      "splib07b_cvAVIRISc2012", "splib07b_cvAVIRISc2013", "splib07b_cvAVIRISc2014",
      "splib07b_cvCRISM-global", "splib07b_cvCRISMjMTR3", "splib07b_cvHYMAP2007",
      "splib07b_cvHYMAP2014", "splib07b_cvHYPERION", "splib07b_cvM3-target",
      "splib07b_cvVIMS", "splib07b_rsASTER", "splib07b_rsLandsat8",
      "splib07b_rsSentinel2", "splib07b_rsWorldView3" }

\* len(Chapter)
NumChapters == 7

\* The row pattern's fixed cells: 7 leading and 2 trailing.
LeadingCells == 7
TrailingCells == 2

----------------------------------------------------------------------------
(* Outcomes, dicts, optional values. *)

Return(v, n) == [exc |-> "None", site |-> "", value |-> v, row |-> <<>>, decoded |-> n]

Raise(e, s, r, n) == [exc |-> e, site |-> s, value |-> <<>>, row |-> r, decoded |-> n]

EmptyDict == [keys |-> <<>>, map |-> <<>>]

DictHas(d, k) == k \in DOMAIN d.map

\* d[k] = v: a new key goes last, an existing key keeps its place.
DictSet(d, k, v) ==
    [keys |-> IF DictHas(d, k) THEN d.keys ELSE Append(d.keys, k),
     map  |-> [x \in (DOMAIN d.map) \cup {k} |-> IF x = k THEN v ELSE d.map[x]]]

None == <<>>

Some(v) == <<v>>

----------------------------------------------------------------------------
(* pathlib and str helpers. *)

Seg(s) == <<s>>

SuffixTokens == {".html", ".txt", ".gif"}

\* pathlib.PurePath(href): "." segments are dropped, ".." segments are kept.
PurePath(href) == SelectSeq(href, LAMBDA seg : seg # Seg("."))

\* PurePath.stem: the final component without its last suffix.
stem(path) ==
    IF path = <<>> THEN <<>>
    ELSE LET name == path[Len(path)]
         IN  IF Len(name) > 1 /\ name[Len(name)] \in SuffixTokens
             THEN SubSeq(name, 1, Len(name) - 1)
             ELSE name

\* str.removeprefix
removeprefix(s, prefix) ==
    IF Len(s) >= 1 /\ s[1] = prefix THEN Tail(s) ELSE s

\* Sampling(sampling_id) succeeds iff the string is a value of the enumeration.
IsSamplingValue(id) == Len(id) = 1 /\ id[1] \in SamplingValues

----------------------------------------------------------------------------
(* _read_toc_sampling_paths *)

\* The loop over soup.find_all(["li"]); an item is [anchor]: no link, or one href.
RECURSIVE TocLoop(_, _)
TocLoop(items, datatables) ==
    IF items = <<>> THEN Return(datatables, 0)
    ELSE LET li_tags == Head(items)
         IN  IF li_tags.anchor = None
             THEN Raise("TypeError", "link", <<>>, 0)
             ELSE LET datatable_path == PurePath(li_tags.anchor[1])
                      sampling_id == removeprefix(stem(datatable_path), "datatable_")
                  IN  IF ~IsSamplingValue(sampling_id)
                      THEN Raise("ValueError", "Sampling", <<>>, 0)
                      ELSE TocLoop(Tail(items),
                                   DictSet(datatables, sampling_id[1], datatable_path))

\* Mutant of _read_toc_sampling_paths: a list item of an unknown sampling is
\* skipped instead of raising.
read_toc_skipping(tocfile) ==
    IF tocfile = None THEN Raise("FileNotFoundError", "read_text", <<>>, 0)
    ELSE TocLoop(SelectSeq(tocfile[1],
                     LAMBDA li : li.anchor # None =>
                         IsSamplingValue(removeprefix(stem(PurePath(li.anchor[1])),
                                                      "datatable_"))),
                 EmptyDict)

\* A document that cannot be read makes read_text raise.
_read_toc_sampling_paths(tocfile) ==
    IF tocfile = None THEN Raise("FileNotFoundError", "read_text", <<>>, 0)
    ELSE TocLoop(tocfile[1], EmptyDict)

----------------------------------------------------------------------------
(* _extract_link_path and _read_datatable *)

\* Mutant of _extract_link_path: a missing link is accepted in every cell.
extract_link_path_lenient(tag, missing_ok) ==
    IF tag.anchor = None THEN Return(None, 0)
    ELSE Return(Some(PurePath(tag.anchor[1])), 0)

\* A cell is [text, anchor]: anchor is None or Some(href).  The result is None
\* or Some(path), and is what the entry's field holds.
_extract_link_path(tag, missing_ok) ==
    IF tag.anchor = None
    THEN IF ~missing_ok THEN Raise("ValueError", "anchor", <<>>, 0)
         ELSE Return(None, 0)
    ELSE Return(Some(PurePath(tag.anchor[1])), 0)

\* re.sub(" +", "_", text)
RECURSIVE SkipSpaces(_)
SkipSpaces(s) ==
    IF s # <<>> /\ Head(s) = " " THEN SkipSpaces(Tail(s)) ELSE s

RECURSIVE SubSpaces(_)
SubSpaces(s) ==
    IF s = <<>> THEN <<>>
    ELSE IF Head(s) = " " THEN <<"_">> \o SubSpaces(SkipSpaces(s))
    ELSE <<Head(s)>> \o SubSpaces(Tail(s))

\* The body of the try block for one row: the unpacking of the cells, then the
\* _SpectrumEntry.  An exception raised there is a ValueError, which the except
\* clause replaces by a ValueError naming the row's cells.
DecodeRow(data) ==
    LET n == Len(data)
        fail(cause) == Raise("ValueError", cause, data, 0)
    IN  IF n < LeadingCells + TrailingCells THEN fail("row:unpack")
        ELSE
        LET extra_plots == SubSeq(data, LeadingCells + 1, n - TrailingCells)
            description == _extract_link_path(data[2], FALSE)
            spectrum_asciidata == _extract_link_path(data[3], TRUE)
            error_asciidata == _extract_link_path(data[4], TRUE)
            wavelengths_asciidata == _extract_link_path(data[5], FALSE)
            bandpass_asciidata == _extract_link_path(data[6], FALSE)
            range_plot == _extract_link_path(data[7], TRUE)
            wavelength_plot == _extract_link_path(data[n - 1], FALSE)
            bandpass_plot == _extract_link_path(data[n], FALSE)
            extras == [i \in 1..Len(extra_plots) |->
                          _extract_link_path(extra_plots[i], TRUE)]
            all == <<description, spectrum_asciidata, error_asciidata,
                     wavelengths_asciidata, bandpass_asciidata, range_plot,
                     wavelength_plot, bandpass_plot>> \o extras
        IN  IF \E i \in 1..Len(all) : all[i].exc # "None" THEN fail("row:anchor")
            ELSE Return([name |-> SubSpaces(data[1].text),
                         description |-> description.value,
                         spectrum_asciidata |-> spectrum_asciidata.value,
                         error_asciidata |-> error_asciidata.value,
                         wavelengths_asciidata |-> wavelengths_asciidata.value,
                         bandpass_asciidata |-> bandpass_asciidata.value,
                         range_plot |-> range_plot.value,
                         wavelength_plot |-> wavelength_plot.value,
                         bandpass_plot |-> bandpass_plot.value,
                         extra_range_plots |->
                             [i \in 1..Len(extras) |-> extras[i].value]], 0)

\* The rows of one chapter table, from the fifth on: islice(all_rows, 4, None).
RowsDropHeader(all_rows) ==
    IF Len(all_rows) <= 4 THEN <<>> ELSE SubSeq(all_rows, 5, Len(all_rows))

\* The inner loop: decodes the rows into current_index; decoded counts the rows
\* decoded so far in the document.
RECURSIVE RowLoop(_, _, _)
RowLoop(rows, current_index, decoded) ==
    IF rows = <<>> THEN Return(current_index, decoded)
    ELSE LET r == DecodeRow(Head(rows))
         IN  IF r.exc # "None"
             THEN Raise(r.exc, r.site, r.row, decoded + 1)
             ELSE RowLoop(Tail(rows),
                          DictSet(current_index, r.value.name, r.value),
                          decoded + 1)

\* The outer loop over zip(table_tags[1:], chapter_indices); k is the position
\* in chapter_indices.
RECURSIVE TableLoop(_, _, _, _)
TableLoop(tables, k, chapter_indices, decoded) ==
    IF tables = <<>> \/ k > Len(chapter_indices)
    THEN Return(chapter_indices, decoded)
    ELSE LET r == RowLoop(RowsDropHeader(Head(tables)), chapter_indices[k], decoded)
         IN  IF r.exc # "None" THEN r
             ELSE TableLoop(Tail(tables), k + 1,
                            [chapter_indices EXCEPT ![k] = r.value], r.decoded)

\* Mutant of ChapterTables: the banner table is not dropped.
ChapterTablesWithBanner(table_tags) == table_tags

\* table_tags[1:]
ChapterTables(table_tags) ==
    IF table_tags = <<>> THEN <<>> ELSE Tail(table_tags)

_read_datatable(file) ==
    IF file = None THEN Raise("FileNotFoundError", "read_text", <<>>, 0)
    ELSE LET table_tags == file[1]
             expected_num_tables == NumChapters + 1
         IN  IF Len(table_tags) # expected_num_tables
             THEN Raise("ValueError", "tables", <<>>, 0)
             ELSE TableLoop(ChapterTables(table_tags), 1,
                            [c \in 1..NumChapters |-> EmptyDict], 0)

----------------------------------------------------------------------------
(* The archives and documents the operations are applied to. *)

Cell(text, anchor) == [text |-> text, anchor |-> anchor]

\* The link of column i of the row titled title.
CellHref(i, title) == <<Seg(".."), Seg(ToString(i)), title>>

\* A row of n cells titled title whose cells in missing hold no link.
MkRow(title, n, missing) ==
    [i \in 1..n |->
        IF i = 1 THEN Cell(title, None)
        ELSE Cell(<<>>, IF i \in missing THEN None ELSE Some(CellHref(i, title)))]

\* A header row: its cells hold no link.
HeaderRow == <<Cell(<<"h">>, None), Cell(<<"h">>, None)>>

\* The row every table k holds: all its cells linked, titled by the table.
GoodRow(k) == MkRow(<<"t", " ", ToString(k)>>, LeadingCells + TrailingCells, {})

TitleChoices == { <<"a", " ", " ", "b">>, <<"t", " ", " ", "2">> }

\* A document of n tables; table p also holds the row (title, cells, missing).
DocParams ==
    { d \in [n : 0..MaxTables, p : 1..MaxTables, title : TitleChoices,
             cells : (LeadingCells + TrailingCells - 1)..MaxCells,
             missing : 0..MaxCells] :
        /\ d.p <= d.n \/ (d.n = 0 /\ d.p = 1)
        /\ d.missing # 1
        /\ d.missing <= d.cells }

SpecialRow(d) == MkRow(d.title, d.cells, IF d.missing = 0 THEN {} ELSE {d.missing})

Doc(d) ==
    [k \in 1..d.n |->
        <<HeaderRow, HeaderRow, HeaderRow, HeaderRow, GoodRow(k)>>
        \o (IF k = d.p THEN <<SpecialRow(d)>> ELSE <<>>)]

DefaultDocParams ==
    [n |-> NumChapters + 1, p |-> 2, title |-> <<"a", " ", " ", "b">>,
     cells |-> LeadingCells + TrailingCells, missing |-> 0]

\* The hrefs of the list items of a table of contents.
HrefA == <<<<"datatable_", "splib07a", ".html">>>>
HrefB == <<<<"datatable_", "splib07b", ".html">>>>
HrefOldA == <<Seg("old"), <<"datatable_", "splib07a", ".html">>>>
HrefBare == <<Seg("."), <<"splib07b_cvASD", ".html">>>>
HrefUnknown == <<<<"datatable_", "splib07c", ".html">>>>

TocItems ==
    { [anchor |-> a] : a \in {None, Some(HrefA), Some(HrefB), Some(HrefOldA),
                              Some(HrefBare), Some(HrefUnknown)} }

RECURSIVE SeqsUpTo(_, _)
SeqsUpTo(S, n) ==
    IF n = 0 THEN {<<>>}
    ELSE LET shorter == SeqsUpTo(S, n - 1)
         IN  shorter \cup { Append(q, x) : q \in shorter, x \in S }

TocChoices == {None} \cup { Some(items) : items \in SeqsUpTo(TocItems, MaxTocItems) }

\* What a datatable file of the archive holds.
FileKinds == {"good", "tables7", "tables9", "norequired", "nooptional", "missing"}

FileDoc(kind, p) ==
    LET d == [DefaultDocParams EXCEPT !.p = p]
    IN  CASE kind = "good" -> Some(Doc(d))
          [] kind = "tables7" -> Some(Doc([d EXCEPT !.n = NumChapters]))
          [] kind = "tables9" -> Some(Doc([d EXCEPT !.n = NumChapters + 2]))
          [] kind = "norequired" -> Some(Doc([d EXCEPT !.missing = 5]))
          [] kind = "nooptional" -> Some(Doc([d EXCEPT !.missing = 3]))
          [] OTHER -> None

\* Mutant of IndexesPath: only the file name of the relative path is joined.
IndexesPathByName(datatable_path) ==
    <<Seg("indexes"), datatable_path[Len(datatable_path)]>>

\* root_path.joinpath("indexes").joinpath(datatable_path)
IndexesPath(datatable_path) == <<Seg("indexes")>> \o datatable_path

\* The archive's files under <root>/indexes, by path.
ReadFile(sel, path) ==
    CASE path = IndexesPath(PurePath(HrefA)) -> FileDoc(sel.a, 2)
      [] path = IndexesPath(PurePath(HrefB)) -> FileDoc(sel.b, 3)
      [] path = IndexesPath(PurePath(HrefOldA)) -> FileDoc("good", 4)
      [] path = IndexesPath(PurePath(HrefBare)) -> FileDoc("good", 5)
      [] OTHER -> None

DefaultToc == Some(<<[anchor |-> Some(HrefA)], [anchor |-> Some(HrefB)]>>)

DefaultSel == [a |-> "good", b |-> "good"]

----------------------------------------------------------------------------
(* generate_index *)

\* Mutant of IndexLoop: a sampling whose datatable fails is left out.
RECURSIVE IndexLoopSkipping(_, _, _, _)
IndexLoopSkipping(keys, sampling_datatables, sampling_indices, root) ==
    IF keys = <<>> THEN Return(sampling_indices, 0)
    ELSE LET sampling == Head(keys)
             r == _read_datatable(ReadFile(root, IndexesPath(sampling_datatables.map[sampling])))
         IN  IndexLoopSkipping(Tail(keys), sampling_datatables,
                 IF r.exc # "None" THEN sampling_indices
                 ELSE DictSet(sampling_indices, sampling, r.value), root)

\* The loop over sampling_datatables.items(), in the dict's order; root is
\* the archive, read by ReadFile.
RECURSIVE IndexLoop(_, _, _, _)
IndexLoop(keys, sampling_datatables, sampling_indices, root) ==
    IF keys = <<>> THEN Return(sampling_indices, 0)
    ELSE LET sampling == Head(keys)
             r == _read_datatable(ReadFile(root, IndexesPath(sampling_datatables.map[sampling])))
         IN  IF r.exc # "None" THEN r
             ELSE IndexLoop(Tail(keys), sampling_datatables,
                            DictSet(sampling_indices, sampling, r.value), root)

generate_index(tocfile, root) ==
    LET sampling_datatables == _read_toc_sampling_paths(tocfile)
    IN  IF sampling_datatables.exc # "None" THEN sampling_datatables
        ELSE IndexLoop(sampling_datatables.value.keys, sampling_datatables.value,
                       EmptyDict, root)

----------------------------------------------------------------------------
(* The index operations as a state machine: an archive and a document are    *)
(* given, and each operation is called on them.                             *)

NoCall == [op |-> "none", res |-> Return(<<>>, 0)]

\* scripts/generate_index.py has not been run.
NotRun == [argv |-> 0, out0 |-> None, out |-> None, status |-> None, log |-> <<>>]

InitIndex ==
    /\ cli = NotRun
    /\ \/ /\ toc \in TocChoices
          /\ fsel \in [a : FileKinds, b : {"good", "norequired", "missing"}]
          /\ docp = DefaultDocParams
       \/ /\ toc = DefaultToc
          /\ fsel = DefaultSel
          /\ docp \in DocParams
    /\ ret = NoCall

CallReadToc ==
    /\ ret.op = "none"
    /\ ret' = [op |-> "read_toc", res |-> _read_toc_sampling_paths(toc)]
    /\ UNCHANGED <<toc, fsel, docp, cli>>
    /\ UNCHANGED cvars
    /\ UNCHANGED lvars

CallReadDatatable ==
    /\ ret.op = "none"
    /\ ret' = [op |-> "read_datatable", res |-> _read_datatable(Some(Doc(docp)))]
    /\ UNCHANGED <<toc, fsel, docp, cli>>
    /\ UNCHANGED cvars
    /\ UNCHANGED lvars

CallGenerateIndex ==
    /\ ret.op = "none"
    /\ ret' = [op |-> "generate_index",
               res |-> generate_index(toc, fsel)]
    /\ UNCHANGED <<toc, fsel, docp, cli>>
    /\ UNCHANGED cvars
    /\ UNCHANGED lvars

\* The cached index is not loaded while the index operations are exercised.
CacheIdle ==
    /\ cache = None
    /\ heap = <<>>
    /\ pc = [t \in 1..NumThreads |-> "idle"]
    /\ cur = [t \in 1..NumThreads |-> [late |-> FALSE, inst |-> 0]]
    /\ lastcall = [t \in 1..NumThreads |->
                      [status |-> "none", late |-> FALSE, loaded |-> FALSE, inst |-> 0]]
    /\ held = [t \in 1..NumThreads |-> 0]
    /\ firstInst = None

\* No library handle is open.
NoHandle ==
    /\ lib = [root |-> <<>>, memo |-> [spectra |-> None, resamplings |-> None]]
    /\ call = [op |-> "none", args |-> <<>>, res |-> Return(<<>>, 0),
               trace |-> [loaded |-> <<>>, nresample |-> 0]]

Init ==
    /\ InitIndex
    /\ CacheIdle
    /\ NoHandle
    /\ ctl = [maxActive |-> 0, ncalls |-> 0, nmut |-> 0]

Next == CallReadToc \/ CallReadDatatable \/ CallGenerateIndex

Spec == Init /\ [][Next]_vars

----------------------------------------------------------------------------
(* Attribute access on the _SamplingIndex that _read_datatable returns. *)

\* _SamplingIndex._fields
SamplingIndexFields ==
    << "minerals", "soils_and_mixtures", "coatings", "liquids", "organics",
       "artificial", "vegetation" >>

\* The attributes asked for: the fields, and the view of all chapters that
\* tests/test_index.py reads.
AttrChoices == { SamplingIndexFields[i] : i \in 1..NumChapters } \cup {"all_chapters"}

\* sampling_index.<attr>: a NamedTuple has its fields and nothing else that
\* holds entries.
getattr(sampling_index, attr) ==
    IF \E i \in 1..NumChapters : SamplingIndexFields[i] = attr
    THEN Return(sampling_index[CHOOSE i \in 1..NumChapters :
                                   SamplingIndexFields[i] = attr], 0)
    ELSE Raise("AttributeError", attr, <<>>, 0)

InitLookup ==
    /\ cli = NotRun
    /\ toc = DefaultToc
    /\ fsel = DefaultSel
    /\ docp \in DocParams
    /\ ret = NoCall
    /\ CacheIdle
    /\ NoHandle
    /\ ctl = [maxActive |-> 0, ncalls |-> 0, nmut |-> 0]

GetAttr ==
    /\ ret.op = "read_datatable"
    /\ ret.res.exc = "None"
    /\ \E attr \in AttrChoices :
          ret' = [op |-> "getattr", attr |-> attr, index |-> ret.res.value,
                  res |-> getattr(ret.res.value, attr)]
    /\ UNCHANGED <<toc, fsel, docp, cli>>
    /\ UNCHANGED cvars
    /\ UNCHANGED lvars

NextLookup == CallReadDatatable \/ GetAttr

SpecLookup == InitLookup /\ [][NextLookup]_vars

----------------------------------------------------------------------------
(* scripts/generate_index.py: _main on the command line's arguments. *)

\* What a run did and left: the exit status of the process, the calls it made
\* in their order, and the content of the output path.
Ran(status, log, out) == [status |-> status, log |-> log, out |-> out]

\* Mutant of _main: the output file is opened before the index is generated.
main_opening_first(argv, tocfile, root, out0, writable) ==
    IF argv # 2 THEN Ran(2, <<"parse_args">>, out0)
    ELSE IF ~writable THEN Ran(1, <<"parse_args", "lzma.open">>, out0)
    ELSE LET index == generate_index(tocfile, root)
         IN  IF index.exc # "None"
             THEN Ran(1, <<"parse_args", "lzma.open", "generate_index">>, Some(<<>>))
             ELSE Ran(0, <<"parse_args", "lzma.open", "generate_index", "pickle.dump">>,
                      Some(<<index.value>>))

\* _main, and the exit of the interpreter: argv is the number of positional
\* arguments, out0 the content of the output path (None: no such file),
\* writable whether the output path can be opened for writing.
_main(argv, tocfile, root, out0, writable) ==
    IF argv # 2 THEN Ran(2, <<"parse_args">>, out0)
    ELSE LET index == generate_index(tocfile, root)
         IN  IF index.exc # "None"
             THEN Ran(1, <<"parse_args", "generate_index">>, out0)
             ELSE IF ~writable
             THEN Ran(1, <<"parse_args", "generate_index", "lzma.open">>, out0)
             ELSE Ran(0, <<"parse_args", "generate_index", "lzma.open", "pickle.dump">>,
                      Some(<<index.value>>))

\* The tables of contents of the archives the script is run on.
CliTocs ==
    { None, DefaultToc, Some(<<[anchor |-> Some(HrefA)]>>),
      Some(<<[anchor |-> Some(HrefA)], [anchor |-> Some(HrefUnknown)]>>) }

\* The content of the output path before the run: no file, or an older index.
OldOutputs == { None, Some(<<"old">>) }

InitCli ==
    /\ toc \in CliTocs
    /\ fsel \in [a : FileKinds, b : FileKinds]
    /\ docp = DefaultDocParams
    /\ ret = NoCall
    /\ CacheIdle
    /\ NoHandle
    /\ ctl = [maxActive |-> 0, ncalls |-> 0, nmut |-> 0]
    /\ \E argv \in 1..3, out0 \in OldOutputs :
          cli = [NotRun EXCEPT !.argv = argv, !.out0 = out0, !.out = out0]

RunMain ==
    /\ cli.status = None
    /\ \E writable \in BOOLEAN :
          \E r \in {_main(cli.argv, toc, fsel, cli.out0, writable)} :
             cli' = [cli EXCEPT !.status = Some(r.status), !.log = r.log, !.out = r.out]
    /\ UNCHANGED <<toc, fsel, docp, ret>>
    /\ UNCHANGED cvars
    /\ UNCHANGED lvars

NextCli == RunMain

SpecCli == InitCli /\ [][NextCli]_vars

----------------------------------------------------------------------------
(* load_cached_index: the bundled blob behind functools.cache, and what the  *)
(* holders of the returned Splib07Index can do to it.                       *)

\* The object graph pickled into index.pickle: a Splib07Index whose attribute
\* _sampling_indices is the dict generate_index built.
BlobIndex ==
    [_sampling_indices |->
        generate_index(Some(<<[anchor |-> Some(HrefA)]>>), DefaultSel).value]

Threads == 1..NumThreads

Active == { t \in Threads : pc[t] # "idle" }

\* Mutant of CacheAfterStore: the result is not kept.
CacheAfterStoreDropped(old, result) == old

\* functools.cache after a miss: the dict entry of the call's key is set to the
\* result, whatever it held.
CacheAfterStore(old, result) == Some(result)

Finished(t, status, loaded, inst) ==
    [status |-> status, late |-> cur[t].late, loaded |-> loaded, inst |-> inst]

\* A call finds the result in the cache and returns it.
CacheHit(t) ==
    /\ pc[t] = "idle"
    /\ ctl.ncalls < MaxCalls
    /\ Cardinality(Active) < ctl.maxActive
    /\ cache # None
    /\ lastcall' = [lastcall EXCEPT ![t] =
           [status |-> "returned", late |-> firstInst # None,
            loaded |-> FALSE, inst |-> cache[1]]]
    /\ held' = [held EXCEPT ![t] = cache[1]]
    /\ firstInst' = IF firstInst = None THEN cache ELSE firstInst
    /\ ctl' = [ctl EXCEPT !.ncalls = @ + 1]
    /\ UNCHANGED <<cache, heap, pc, cur>>
    /\ UNCHANGED ivars
    /\ UNCHANGED lvars

\* A call finds the cache empty and enters load_cached_index.
CacheMiss(t) ==
    /\ pc[t] = "idle"
    /\ ctl.ncalls < MaxCalls
    /\ Cardinality(Active) < ctl.maxActive
    /\ cache = None
    /\ pc' = [pc EXCEPT ![t] = "miss"]
    /\ cur' = [cur EXCEPT ![t] = [late |-> firstInst # None, inst |-> 0]]
    /\ ctl' = [ctl EXCEPT !.ncalls = @ + 1]
    /\ UNCHANGED <<cache, heap, lastcall, held, firstInst>>
    /\ UNCHANGED ivars
    /\ UNCHANGED lvars

\* pickle.load(fd) builds a new object.
Deserialize(t) ==
    /\ pc[t] = "miss"
    /\ heap' = Append(heap, BlobIndex)
    /\ cur' = [cur EXCEPT ![t].inst = Len(heap) + 1]
    /\ pc' = [pc EXCEPT ![t] = "loaded"]
    /\ UNCHANGED <<cache, lastcall, held, firstInst, ctl>>
    /\ UNCHANGED ivars
    /\ UNCHANGED lvars

\* Opening or reading the blob raises: the exception leaves the call, and
\* functools.cache keeps nothing.
DeserializeFail(t) ==
    /\ pc[t] = "miss"
    /\ pc' = [pc EXCEPT ![t] = "idle"]
    /\ lastcall' = [lastcall EXCEPT ![t] = Finished(t, "raised", FALSE, 0)]
    /\ UNCHANGED <<cache, heap, cur, held, firstInst, ctl>>
    /\ UNCHANGED ivars
    /\ UNCHANGED lvars

\* load_cached_index returns to functools.cache, which stores and returns the
\* result.
CacheStore(t) ==
    /\ pc[t] = "loaded"
    /\ cache' = CacheAfterStore(cache, cur[t].inst)
    /\ pc' = [pc EXCEPT ![t] = "idle"]
    /\ lastcall' = [lastcall EXCEPT ![t] = Finished(t, "returned", TRUE, cur[t].inst)]
    /\ held' = [held EXCEPT ![t] = cur[t].inst]
    /\ firstInst' = IF firstInst = None THEN Some(cur[t].inst) ELSE firstInst
    /\ UNCHANGED <<heap, cur, ctl>>
    /\ UNCHANGED ivars
    /\ UNCHANGED lvars

\* del d[k]
DictDel(d, k) ==
    [keys |-> SelectSeq(d.keys, LAMBDA x : x # k),
     map  |-> [x \in (DOMAIN d.map) \ {k} |-> d.map[x]]]

\* An entry a holder may store: the row of another document.
OtherEntry == DecodeRow(GoodRow(0)).value

MutChapters == {1, NumChapters}

MutKeys(chapter) == {k \in DOMAIN chapter.map : TRUE} \cup {OtherEntry.name}

MutationFrame(t) ==
    /\ held[t] # 0
    /\ ctl.nmut < MaxMutations
    /\ ctl' = [ctl EXCEPT !.nmut = @ + 1]
    /\ UNCHANGED <<cache, pc, cur, lastcall, held, firstInst>>
    /\ UNCHANGED ivars
    /\ UNCHANGED lvars

\* index._sampling_indices[s][c][k] = entry: a chapter sub-index is a dict.
HolderSetItem(t) ==
    /\ MutationFrame(t)
    /\ \E s \in DOMAIN heap[held[t]]._sampling_indices.map, c \in MutChapters :
         \E k \in MutKeys(heap[held[t]]._sampling_indices.map[s][c]) :
            heap' = [heap EXCEPT ![held[t]]._sampling_indices.map[s][c] =
                        DictSet(@, k, OtherEntry)]

\* del index._sampling_indices[s][c][k]
HolderDelItem(t) ==
    /\ MutationFrame(t)
    /\ \E s \in DOMAIN heap[held[t]]._sampling_indices.map, c \in MutChapters :
         \E k \in DOMAIN heap[held[t]]._sampling_indices.map[s][c].map :
            heap' = [heap EXCEPT ![held[t]]._sampling_indices.map[s][c] = DictDel(@, k)]

\* del index._sampling_indices[s]: the attribute holds a dict.
HolderDelSampling(t) ==
    /\ MutationFrame(t)
    /\ \E s \in DOMAIN heap[held[t]]._sampling_indices.map :
          heap' = [heap EXCEPT ![held[t]]._sampling_indices = DictDel(@, s)]

\* entry.extra_range_plots.append(None): the field holds a list.
HolderAppendPlot(t) ==
    /\ MutationFrame(t)
    /\ \E s \in DOMAIN heap[held[t]]._sampling_indices.map, c \in MutChapters :
         \E k \in DOMAIN heap[held[t]]._sampling_indices.map[s][c].map :
            heap' = [heap EXCEPT
                        ![held[t]]._sampling_indices.map[s][c].map[k].extra_range_plots =
                            Append(@, None)]

\* entry.name = ..., sampling_index.minerals = ...: a NamedTuple's fields
\* cannot be assigned (AttributeError); nothing changes.
HolderSetField(t) ==
    /\ MutationFrame(t)
    /\ heap' = heap

InitCache ==
    /\ cli = NotRun
    /\ toc = DefaultToc
    /\ fsel = DefaultSel
    /\ docp = DefaultDocParams
    /\ ret = NoCall
    /\ CacheIdle
    /\ NoHandle
    /\ ctl = [maxActive |-> NumThreads, ncalls |-> 0, nmut |-> 0]

\* One caller at a time: a call returns before the next begins.
InitCacheSeq ==
    /\ cli = NotRun
    /\ toc = DefaultToc
    /\ fsel = DefaultSel
    /\ docp = DefaultDocParams
    /\ ret = NoCall
    /\ CacheIdle
    /\ NoHandle
    /\ ctl = [maxActive |-> 1, ncalls |-> 0, nmut |-> 0]

NextCache ==
    \E t \in Threads :
        \/ CacheHit(t)
        \/ CacheMiss(t)
        \/ Deserialize(t)
        \/ DeserializeFail(t)
        \/ CacheStore(t)
        \/ HolderSetItem(t)
        \/ HolderDelItem(t)
        \/ HolderDelSampling(t)
        \/ HolderAppendPlot(t)
        \/ HolderSetField(t)

SpecCache == InitCache /\ [][NextCache]_vars

SpecCacheSeq == InitCacheSeq /\ [][NextCache]_vars

----------------------------------------------------------------------------
(* The library facade (Splib07 of _loader.py).                              *)
(*                                                                         *)
(* A spectrum file's name is a sequence of characters; a resampling's name *)
(* and a directory's name are sequences of tokens.  A resampling directory *)
(* is [subdirs, aux]: its sub-directories [chapter, files] (chapter: the   *)
(* name starts with "Chapter") and its own files, each [txt, band, nm,     *)
(* wave, srf, labels, data]: what the name tests of _load find in the name *)
(* (the ".txt" suffix, "andpass" or "esolution", the "_nm.txt" suffix,     *)
(* "avelength" or "aves", a response-function suffix, the sampling labels  *)
(* it contains).  Numbers are in units of 1e29.                            *)

\* _DeletedChannelRange
DeletedRangeStart == -123001
DeletedRangeEnd == -122999

\* np.nan
NaN == -999999

\* Mutant of _mask_in_range: the ends of the range are left out.
mask_in_range_open(arr, start, end) ==
    [i \in 1..Len(arr) |-> (start < arr[i]) /\ (arr[i] < end)]

\* _mask_in_range
_mask_in_range(arr, start, end) ==
    [i \in 1..Len(arr) |-> (start <= arr[i]) /\ (arr[i] <= end)]

_usgs_deleted_mask(arr) == _mask_in_range(arr, DeletedRangeStart, DeletedRangeEnd)

\* data[~mask]
RECURSIVE Unmasked(_, _)
Unmasked(data, mask) ==
    IF data = <<>> THEN <<>>
    ELSE (IF Head(mask) THEN <<>> ELSE <<Head(data)>>)
         \o Unmasked(Tail(data), Tail(mask))

\* np.loadtxt(file, skiprows=1) gives the file's data.
_load_asciidata(data, deleted) ==
    IF deleted = "sigil" THEN Return(data, 0)
    ELSE LET mask == _usgs_deleted_mask(data)
         IN  IF deleted = "drop" THEN Return(Unmasked(data, mask), 0)
             ELSE IF deleted = "nan"
             THEN Return([i \in 1..Len(data) |-> IF mask[i] THEN NaN ELSE data[i]], 0)
             ELSE Raise("ValueError", "unknown deleted behavior", <<>>, 0)

\* str.split("_")
RECURSIVE Split(_, _)
Split(str, part) ==
    IF str = <<>> THEN <<part>>
    ELSE IF Head(str) = "_" THEN <<part>> \o Split(Tail(str), <<>>)
    ELSE Split(Tail(str), Append(part, Head(str)))

\* "_".join(parts)
RECURSIVE Join(_)
Join(parts) ==
    IF parts = <<>> THEN <<>>
    ELSE IF Len(parts) = 1 THEN parts[1]
    ELSE parts[1] \o <<"_">> \o Join(Tail(parts))

\* parts[1:-2]
Middle(parts) ==
    IF Len(parts) <= 3 THEN <<>> ELSE SubSeq(parts, 2, Len(parts) - 2)

\* sub in str
Contains(str, sub) ==
    \E i \in 0..(Len(str) - Len(sub)) : SubSeq(str, i + 1, i + Len(sub)) = sub

\* The order of str.__lt__ on the characters of the names.
Ord(c) ==
    CASE c = "0" -> 48 [] c = "1" -> 49 [] c = "X" -> 88 [] c = "Y" -> 89
      [] c = "_" -> 95 [] c = "a" -> 97 [] c = "b" -> 98 [] OTHER -> 122

RECURSIVE StrLess(_, _)
StrLess(x, y) ==
    IF y = <<>> THEN FALSE
    ELSE IF x = <<>> THEN TRUE
    ELSE IF Head(x) = Head(y) THEN StrLess(Tail(x), Tail(y))
    ELSE Ord(Head(x)) < Ord(Head(y))

\* list.sort()
RECURSIVE Insert(_, _)
Insert(sorted, x) ==
    IF sorted = <<>> THEN <<x>>
    ELSE IF StrLess(x, Head(sorted)) THEN <<x>> \o sorted
    ELSE <<Head(sorted)>> \o Insert(Tail(sorted), x)

RECURSIVE Sort(_)
Sort(list) ==
    IF list = <<>> THEN <<>> ELSE Insert(Sort(SubSeq(list, 1, Len(list) - 1)), list[Len(list)])

\* _RESAMPLING_FIXED_NAMES
FixedNames == << <<"measured">>, <<"oversampled">> >>

\* _RESAMPLING_FIXED_NAMES.get(resample_source, f"splib07b_{resample_source}")
ResamplingLabel(resample_source) ==
    IF resample_source = <<"measured">> THEN <<"splib07a">>
    ELSE IF resample_source = <<"oversampled">> THEN <<"splib07b">>
    ELSE <<"splib07b", "_">> \o resample_source

\* root.joinpath("ASCIIdata").joinpath(name): the directory of that name, if any.
FindDir(root, name) ==
    LET hits == SelectSeq(root, LAMBDA d : d.name = name)
    IN  IF hits = <<>> THEN None ELSE Some(hits[1].dir)

\* _scan_spectra: the files of the sub-directories named Chapter*, in order.
RECURSIVE _scan_spectra(_)
_scan_spectra(subdirs) ==
    IF subdirs = <<>> THEN <<>>
    ELSE (IF Head(subdirs).chapter THEN Head(subdirs).files ELSE <<>>)
         \o _scan_spectra(Tail(subdirs))

\* Splib07.list_spectra, without its cache.
list_spectra(root) ==
    LET measured_dir == FindDir(root, <<"ASCIIdata_", "splib07a">>)
    IN  IF measured_dir = None THEN Raise("FileNotFoundError", "iterdir", <<>>, 0)
        ELSE LET files == _scan_spectra(measured_dir[1].subdirs)
             IN  Return(Sort([i \in 1..Len(files) |->
                                 Join(Middle(Split(files[i].name, <<>>)))]), 0)

ResamplingPrefix == <<"ASCIIdata_", "splib07b", "_">>

StartsWith(name, prefix) ==
    Len(name) >= Len(prefix) /\ SubSeq(name, 1, Len(prefix)) = prefix

\* Splib07.list_resamplings, without its cache.
list_resamplings(root) ==
    LET named == SelectSeq(root, LAMBDA d : StartsWith(d.name, ResamplingPrefix))
    IN  Return(FixedNames \o
               [i \in 1..Len(named) |->
                   SubSeq(named[i].name, Len(ResamplingPrefix) + 1, Len(named[i].name))], 0)

\* Mutant of InList: a name that is part of a listed name is accepted.
InListLoose(x, list) == \E i \in 1..Len(list) : Contains(list[i], x)

\* x in list
InList(x, list) == \E i \in 1..Len(list) : list[i] = x

\* str[:4]
Prefix4(str) == SubSeq(str, 1, IF Len(str) < 4 THEN Len(str) ELSE 4)

\* sampling_label in f.name, for a file of the resampling directory
LabelIn(sampling_label, f) == sampling_label = <<>> \/ sampling_label \in f.labels

\* Keeps the candidates naming the sampling label when there are several.
Narrow(candidates, sampling_label) ==
    IF Len(candidates) > 1
    THEN SelectSeq(candidates, LAMBDA f : LabelIn(sampling_label, f))
    ELSE candidates

\* The first file of the scan whose name contains spectra_name: the for loop
\* with its break.
FirstMatch(files, spectra_name) ==
    LET hits == SelectSeq(files, LAMBDA f : Contains(f.name, spectra_name))
    IN  IF hits = <<>> THEN None ELSE Some(hits[1])

Spectrum(spectrum, wavelengths, fwhm) ==
    [spectrum |-> spectrum, wavelengths |-> wavelengths, fwhm |-> fwhm]

\* Splib07._load
_load(root, spectra_name, resample_source, deleted) ==
    LET resampling_label == ResamplingLabel(resample_source)
        resampling_dir == FindDir(root, <<"ASCIIdata_">> \o resampling_label)
    IN
    IF resampling_dir = None THEN Raise("FileNotFoundError", "iterdir", <<>>, 0)
    ELSE
    LET dir == resampling_dir[1]
        found == FirstMatch(_scan_spectra(dir.subdirs), spectra_name)
    IN
    IF found = None THEN Raise("RuntimeError", "missing resampling", <<>>, 0)
    ELSE
    LET file == found[1]
        spectra == _load_asciidata(file.data, deleted)
        parts == Split(file.name, <<>>)
    IN
    IF spectra.exc # "None" THEN spectra
    ELSE IF Len(parts) < 2 THEN Raise("IndexError", "sampling_label", <<>>, 0)
    ELSE
    LET sampling_label == Prefix4(parts[Len(parts) - 1])
        fwhm_candidates ==
            Narrow(SelectSeq(dir.aux, LAMBDA f : f.txt /\ f.band /\ ~f.nm),
                   sampling_label)
        wavelength_found ==
            Narrow(SelectSeq(dir.aux,
                       LAMBDA f : f.txt /\ (f.wavelength \/ f.aves) /\ ~f.srf),
                   sampling_label)
        asd_name == IF resample_source = <<"oversampled">> THEN "asd_b" ELSE "asd_a"
        wavelength_candidates ==
            IF Len(wavelength_found) # 1
            THEN SelectSeq(dir.aux, LAMBDA f : f.fixed = asd_name)
            ELSE wavelength_found
    IN
    IF Len(fwhm_candidates) # 1
    THEN Raise("RuntimeError", "bandwidths", <<>>, 0)
    ELSE IF Len(wavelength_found) # 1 /\ ~StartsWith(sampling_label, <<"A", "S", "D">>)
    THEN Raise("RuntimeError", "wavelengths", <<>>, 0)
    ELSE IF wavelength_candidates = <<>>
    THEN Raise("FileNotFoundError", "open", <<>>, 0)
    ELSE
    LET fwhm == _load_asciidata(fwhm_candidates[1].data, deleted)
        wavelengths == _load_asciidata(wavelength_candidates[1].data, deleted)
    IN  Return(Spectrum(spectra.value, wavelengths.value, fwhm.value), 0)

\* spectral.algorithms.resampling.build_fwhm: the spacing of the centers.
build_fwhm(centers) ==
    [i \in 1..Len(centers) |->
        IF i = 1 THEN centers[2] - centers[1]
        ELSE IF i = Len(centers) THEN centers[i] - centers[i - 1]
        ELSE (centers[i + 1] - centers[i - 1]) \div 2]

Abs(x) == IF x < 0 THEN -x ELSE x

\* spectral.BandResampler(centers1, centers2, fwhm1, fwhm2) applied to values:
\* one value per target band, not-a-number where no source band overlaps it.
BandResampler(values, centers1, centers2, fwhm1, fwhm2) ==
    [j \in 1..Len(centers2) |->
        LET near == { i \in 1..Len(centers1) :
                          Abs(centers1[i] - centers2[j]) <= fwhm2[j] + fwhm1[i] }
        IN  IF near = {} THEN NaN
            ELSE values[CHOOSE i \in near : \A m \in near : i <= m]]

\* Mutant of _resample: the resampled values are returned with the wavelengths
\* and widths of the source.
resample_keeping_source_bands(spectrum, to) ==
    IF to.kind # "tuple" /\ Len(to.centers) < 2
    THEN Raise("IndexError", "build_fwhm", <<>>, 0)
    ELSE
    LET target_fwhm == IF to.kind = "tuple" THEN to.widths ELSE build_fwhm(to.centers)
    IN  Return(Spectrum(BandResampler(spectrum.spectrum, spectrum.wavelengths,
                                      to.centers, spectrum.fwhm, target_fwhm),
                        spectrum.wavelengths, spectrum.fwhm), 0)

\* _resample
_resample(spectrum, to) ==
    IF to.kind # "tuple" /\ Len(to.centers) < 2
    THEN Raise("IndexError", "build_fwhm", <<>>, 0)
    ELSE
    LET target_wavelengths == to.centers
        target_fwhm == IF to.kind = "tuple" THEN to.widths ELSE build_fwhm(to.centers)
    IN  IF \/ Len(spectrum.wavelengths) # Len(spectrum.spectrum)
           \/ Len(spectrum.fwhm) # Len(spectrum.wavelengths)
           \/ Len(target_fwhm) # Len(target_wavelengths)
        THEN Raise("ValueError", "BandResampler", <<>>, 0)
        ELSE Return(Spectrum(BandResampler(spectrum.spectrum, spectrum.wavelengths,
                                           target_wavelengths, spectrum.fwhm,
                                           target_fwhm),
                             target_wavelengths, target_fwhm), 0)

\* A method under functools.cache: the first result is kept and returned again.
ListSpectraCached(root, memo) ==
    IF memo.spectra # None THEN [res |-> Return(memo.spectra[1], 0), memo |-> memo]
    ELSE LET r == list_spectra(root)
         IN  [res |-> r,
              memo |-> IF r.exc = "None" THEN [memo EXCEPT !.spectra = Some(r.value)]
                       ELSE memo]

ListResamplingsCached(root, memo) ==
    IF memo.resamplings # None
    THEN [res |-> Return(memo.resamplings[1], 0), memo |-> memo]
    ELSE LET r == list_resamplings(root)
         IN  [res |-> r,
              memo |-> IF r.exc = "None" THEN [memo EXCEPT !.resamplings = Some(r.value)]
                       ELSE memo]

\* What a call of load did: the samplings _load was called on, and the number of
\* calls of _resample.
Trace(loaded, nresample) == [loaded |-> loaded, nresample |-> nresample]

Outcome(res, memo, trace) == [res |-> res, memo |-> memo, trace |-> trace]

\* isinstance(resample, str)
IsStr(resample) == resample.kind = "str"

\* Mutant of ResampleSource: a band model is resampled from the measured data.
ResampleSourceMeasured(resample) ==
    IF IsStr(resample) THEN resample.name ELSE <<"measured">>

ResampleSource(resample) ==
    IF IsStr(resample) THEN resample.name ELSE <<"oversampled">>

\* Splib07.load
load(root, memo, spectra_name, resample, deleted, format) ==
    LET ls == ListSpectraCached(root, memo)
        resample_source == ResampleSource(resample)
        lr == ListResamplingsCached(root, ls.memo)
        none == Trace(<<>>, 0)
    IN
    IF ls.res.exc # "None" THEN Outcome(ls.res, ls.memo, none)
    ELSE IF ~InList(spectra_name, ls.res.value) THEN
        Outcome(Raise("ValueError", "unknown spectra", <<>>, 0), ls.memo, none)
    ELSE IF lr.res.exc # "None" THEN Outcome(lr.res, lr.memo, none)
    ELSE IF ~InList(resample_source, lr.res.value) THEN
        Outcome(Raise("ValueError", "unknown resampling", <<>>, 0), lr.memo, none)
    ELSE IF deleted = "drop" THEN
        Outcome(Raise("NotImplementedError", "drop", <<>>, 0), lr.memo, none)
    ELSE
    LET loaded_spectrum == _load(root, spectra_name, resample_source, deleted)
        one == Trace(<<resample_source>>, 0)
    IN
    IF loaded_spectrum.exc # "None" THEN Outcome(loaded_spectrum, lr.memo, one)
    ELSE
    LET resampled == IF IsStr(resample) THEN loaded_spectrum
                     ELSE _resample(loaded_spectrum.value, resample)
        trace == Trace(<<resample_source>>, IF IsStr(resample) THEN 0 ELSE 1)
    IN
    IF resampled.exc # "None" THEN Outcome(resampled, lr.memo, trace)
    ELSE IF format = "raw" THEN Outcome(resampled, lr.memo, trace)
    ELSE IF format = "spectral" THEN
        Outcome(Return([data |-> <<resampled.value.spectrum>>,
                        wavelength |-> resampled.value.wavelengths,
                        fwhm |-> resampled.value.fwhm,
                        names |-> <<spectra_name>>], 0), lr.memo, trace)
    ELSE Outcome(Raise("ValueError", "unknown format", <<>>, 0), lr.memo, trace)

\* Splib07.load of the package's __init__.py: a named resampling only, and the
\* formats "onlyspectra", "tuple" and "spectral".
load_v0(root, memo, spectra_name, resampling, deleted, format) ==
    LET ls == ListSpectraCached(root, memo)
        lr == ListResamplingsCached(root, ls.memo)
        none == Trace(<<>>, 0)
        one == Trace(<<resampling>>, 0)
        resampling_dir == FindDir(root, <<"ASCIIdata_">> \o ResamplingLabel(resampling))
    IN
    IF ls.res.exc # "None" THEN Outcome(ls.res, ls.memo, none)
    ELSE IF ~InList(spectra_name, ls.res.value) THEN
        Outcome(Raise("ValueError", "unknown spectra", <<>>, 0), ls.memo, none)
    ELSE IF lr.res.exc # "None" THEN Outcome(lr.res, lr.memo, none)
    ELSE IF ~InList(resampling, lr.res.value) THEN
        Outcome(Raise("ValueError", "unknown resampling", <<>>, 0), lr.memo, none)
    ELSE IF resampling_dir = None THEN
        Outcome(Raise("FileNotFoundError", "iterdir", <<>>, 0), lr.memo, one)
    ELSE
    LET dir == resampling_dir[1]
        found == FirstMatch(_scan_spectra(dir.subdirs), spectra_name)
    IN
    IF found = None THEN
        Outcome(Raise("RuntimeError", "missing resampling", <<>>, 0), lr.memo, one)
    ELSE
    LET file == found[1]
        spectra == _load_asciidata(file.data, deleted)
        parts == Split(file.name, <<>>)
    IN
    IF spectra.exc # "None" THEN Outcome(spectra, lr.memo, one)
    ELSE IF format = "onlyspectra" THEN Outcome(spectra, lr.memo, one)
    ELSE IF deleted = "drop" THEN
        Outcome(Raise("NotImplementedError", "drop", <<>>, 0), lr.memo, one)
    ELSE IF Len(parts) < 2 THEN
        Outcome(Raise("IndexError", "sampling_label", <<>>, 0), lr.memo, one)
    ELSE
    LET sampling_label == Prefix4(parts[Len(parts) - 1])
        fwhm_candidates ==
            Narrow(SelectSeq(dir.aux, LAMBDA f : f.txt /\ f.band), sampling_label)
        wavelength_candidates ==
            Narrow(SelectSeq(dir.aux, LAMBDA f : f.txt /\ f.wavelength), sampling_label)
    IN
    IF Len(fwhm_candidates) # 1 THEN
        Outcome(Raise("RuntimeError", "bandwidths", <<>>, 0), lr.memo, one)
    ELSE IF Len(wavelength_candidates) # 1 THEN
        Outcome(Raise("RuntimeError", "wavelengths", <<>>, 0), lr.memo, one)
    ELSE
    LET fwhm == _load_asciidata(fwhm_candidates[1].data, deleted)
        wavelengths == _load_asciidata(wavelength_candidates[1].data, deleted)
    IN
    IF format = "tuple" THEN
        Outcome(Return(Spectrum(spectra.value, wavelengths.value, fwhm.value), 0),
                lr.memo, one)
    ELSE IF format = "spectral" THEN
        Outcome(Return([data |-> <<spectra.value>>, wavelength |-> wavelengths.value,
                        fwhm |-> fwhm.value, names |-> <<spectra_name>>], 0),
                lr.memo, one)
    ELSE Outcome(Raise("ValueError", "unknown format", <<>>, 0), lr.memo, one)

----------------------------------------------------------------------------
(* The archives a library handle is opened on, and the requests made of it. *)

DeletedChannelMarker == -123000

\* The spectra of the archives: a name that is part of another one, and a third.
IdX1 == <<"X", "_", "1">>
IdX10 == <<"X", "_", "1", "0">>
IdY == <<"Y">>

IdNumber(id) == IF id = IdX1 THEN 1 ELSE IF id = IdX10 THEN 2 ELSE 3

\* The file of spectrum id in the directory of prefix p (its number d), measured
\* by the instrument label: <p>_<id>_<label>_R.  The spectra other than Y have a
\* deleted channel.
SpectrumFile(p, d, id, label) ==
    [name |-> <<p, "_">> \o id \o <<"_">> \o label \o <<"_", "R">>,
     data |-> << 100 * d + 10 * IdNumber(id) + 1,
                 IF id = IdY THEN 100 * d + 10 * IdNumber(id) + 2 ELSE DeletedChannelMarker,
                 100 * d + 10 * IdNumber(id) + 3 >>]

AuxFile(band, wavelength, labels, data) ==
    [txt |-> TRUE, band |-> band, nm |-> FALSE, wavelength |-> wavelength,
     aves |-> FALSE, srf |-> FALSE, labels |-> labels, fixed |-> "", data |-> data]

LabelB == <<"B">>
LabelASD == <<"A", "S", "D", "F">>

\* The files beside the chapters: "one" bandpass and one wavelengths file,
\* "two" of each (per instrument, the ASD wavelengths under their fixed name,
\* and a _nm.txt and a response-function file), or "none".
AuxFiles(kind, d) ==
    LET bandB == AuxFile(TRUE, FALSE, {LabelB, <<"b">>}, <<2, 2, 2>>)
        waveB == AuxFile(FALSE, TRUE, {LabelB, <<"b">>}, <<10, 20, 30>>)
        bandA == AuxFile(TRUE, FALSE, {LabelASD}, <<3, 3, 3>>)
        waveASD == [AuxFile(FALSE, TRUE, {}, <<11, 21, 31>>) EXCEPT
                       !.fixed = IF d = 1 THEN "asd_a" ELSE IF d = 2 THEN "asd_b" ELSE ""]
        nmB == [bandB EXCEPT !.nm = TRUE]
        srfB == [waveB EXCEPT !.srf = TRUE]
        other == [bandB EXCEPT !.txt = FALSE]
    IN  CASE kind = "one" -> <<other, bandB, waveB>>
          [] kind = "two" -> <<bandB, nmB, srfB, waveASD, bandA, waveB>>
          [] OTHER -> <<other>>

\* A resampling directory: its chapters hold the spectra ids, in that order, and
\* a directory that is no chapter holds files of the same names.
ResamplingDir(p, d, ids, aux) ==
    [subdirs |-> << [chapter |-> FALSE,
                     files |-> <<SpectrumFile(p, 9, IdX1, LabelB)>>],
                    [chapter |-> TRUE,
                     files |-> [i \in 1..Len(ids) |->
                                   SpectrumFile(p, d, ids[i],
                                       IF ids[i] = IdY THEN LabelASD ELSE LabelB)]],
                    [chapter |-> TRUE, files |-> <<>>] >>,
     aux |-> AuxFiles(aux, d)]

IdOrders == { <<IdX1, IdX10, IdY>>, <<IdX10, IdY, IdX1>> }

\* An archive: ASCIIdata holds the measured and the oversampled directory, the
\* directory of the resampling "cvASD" (with every spectrum, without X_1,
\* without Y, or not at all), and a directory of another kind.
ArchiveParams ==
    [order : IdOrders, asd : {"full", "partial", "noY", "absent"},
     aux : {"one", "two", "none"}]

Archive(a) ==
    << [name |-> <<"errorbars">>, dir |-> ResamplingDir("e", 0, a.order, "none")],
       [name |-> <<"ASCIIdata_", "splib07a">>,
        dir |-> ResamplingDir("a", 1, a.order, a.aux)],
       [name |-> <<"ASCIIdata_", "splib07b">>,
        dir |-> ResamplingDir("b", 2, a.order, a.aux)] >>
    \o (IF a.asd = "absent" THEN <<>>
        ELSE << [name |-> <<"ASCIIdata_", "splib07b", "_", "cvASD">>,
                 dir |-> ResamplingDir("c", 3,
                            IF a.asd = "full" THEN a.order
                            ELSE IF a.asd = "partial"
                            THEN SelectSeq(a.order, LAMBDA id : id # IdX1)
                            ELSE SelectSeq(a.order, LAMBDA id : id # IdY),
                            a.aux)] >>)

NameChoices == {IdX1, IdX10, IdY, <<"X">>}

Named(name) == [kind |-> "str", name |-> name, centers |-> <<>>, widths |-> <<>>]

ResampleChoices ==
    { Named(n) : n \in {<<"measured">>, <<"oversampled">>, <<"cvASD">>, <<"cvNONE">>} }
    \cup { [kind |-> "array", name |-> <<>>, centers |-> <<10, 20>>, widths |-> <<>>],
           [kind |-> "tuple", name |-> <<>>, centers |-> <<12, 28, 90>>,
            widths |-> <<4, 4, 4>>] }

DeletedChoices == {"sigil", "nan", "drop"}

----------------------------------------------------------------------------
(* Calls on one library handle. *)

Args(name, resample, deleted, format) ==
    [name |-> name, resample |-> resample, deleted |-> deleted, format |-> format,
     data |-> <<>>]

NoArgs == Args(<<>>, Named(<<>>), "", "")

\* The caller is between two calls.
Idle == [op |-> "none", args |-> NoArgs, res |-> Return(<<>>, 0), trace |-> Trace(<<>>, 0)]

InitLoad ==
    /\ cli = NotRun
    /\ toc = DefaultToc
    /\ fsel = DefaultSel
    /\ docp = DefaultDocParams
    /\ ret = NoCall
    /\ CacheIdle
    /\ ctl = [maxActive |-> 0, ncalls |-> 0, nmut |-> 0]
    /\ \E a \in ArchiveParams :
          lib = [root |-> Archive(a), memo |-> [spectra |-> None, resamplings |-> None]]
    /\ call = Idle

CallListSpectra ==
    /\ call = Idle
    /\ LET r == ListSpectraCached(lib.root, lib.memo)
       IN  /\ lib' = [lib EXCEPT !.memo = r.memo]
           /\ call' = [op |-> "list_spectra", args |-> NoArgs, res |-> r.res,
                       trace |-> Trace(<<>>, 0)]
    /\ UNCHANGED ivars
    /\ UNCHANGED cvars

CallListResamplings ==
    /\ call = Idle
    /\ LET r == ListResamplingsCached(lib.root, lib.memo)
       IN  /\ lib' = [lib EXCEPT !.memo = r.memo]
           /\ call' = [op |-> "list_resamplings", args |-> NoArgs, res |-> r.res,
                       trace |-> Trace(<<>>, 0)]
    /\ UNCHANGED ivars
    /\ UNCHANGED cvars

CallLoad ==
    /\ call = Idle
    /\ \E name \in NameChoices, resample \in ResampleChoices,
          deleted \in DeletedChoices, format \in {"raw", "spectral"} :
          LET r == load(lib.root, lib.memo, name, resample, deleted, format)
          IN  /\ lib' = [lib EXCEPT !.memo = r.memo]
              /\ call' = [op |-> "load", args |-> Args(name, resample, deleted, format),
                          res |-> r.res, trace |-> r.trace]
    /\ UNCHANGED ivars
    /\ UNCHANGED cvars

\* load of the package's __init__.py
CallLoadV0 ==
    /\ call = Idle
    /\ \E name \in NameChoices, resample \in { x \in ResampleChoices : IsStr(x) },
          deleted \in DeletedChoices, format \in {"onlyspectra", "tuple", "spectral"} :
          LET r == load_v0(lib.root, lib.memo, name, resample.name, deleted, format)
          IN  /\ lib' = [lib EXCEPT !.memo = r.memo]
              /\ call' = [op |-> "load_v0", args |-> Args(name, resample, deleted, format),
                          res |-> r.res, trace |-> r.trace]
    /\ UNCHANGED ivars
    /\ UNCHANGED cvars

\* The caller takes the result of the call; the handle keeps what it memoized.
TakeResult ==
    /\ call # Idle
    /\ call' = Idle
    /\ UNCHANGED lib
    /\ UNCHANGED ivars
    /\ UNCHANGED cvars

NextLoad ==
    CallListSpectra \/ CallListResamplings \/ CallLoad \/ CallLoadV0 \/ TakeResult

SpecLoad == InitLoad /\ [][NextLoad]_vars

----------------------------------------------------------------------------
(* _load_asciidata on the data of one file. *)

\* The values of a file: the deleted marker, the ends of the deleted range, their
\* neighbours outside it, and two ordinary reflectances.
DataValues ==
    { DeletedChannelMarker, DeletedRangeStart, DeletedRangeEnd,
      DeletedRangeStart - 1, DeletedRangeEnd + 1, 0, 5 }

DataChoices == UNION { [1..n -> DataValues] : n \in 0..MaxData }

InitAscii ==
    /\ cli = NotRun
    /\ toc = DefaultToc
    /\ fsel = DefaultSel
    /\ docp = DefaultDocParams
    /\ ret = NoCall
    /\ CacheIdle
    /\ ctl = [maxActive |-> 0, ncalls |-> 0, nmut |-> 0]
    /\ lib = [root |-> <<>>, memo |-> [spectra |-> None, resamplings |-> None]]
    /\ call = Idle

CallLoadAsciidata ==
    /\ call = Idle
    /\ \E data \in DataChoices, deleted \in DeletedChoices \cup {"other"} :
          call' = [op |-> "_load_asciidata",
                   args |-> [NoArgs EXCEPT !.data = data, !.deleted = deleted],
                   res |-> _load_asciidata(data, deleted),
                   trace |-> Trace(<<>>, 0)]
    /\ UNCHANGED lib
    /\ UNCHANGED ivars
    /\ UNCHANGED cvars

NextAscii == CallLoadAsciidata \/ TakeResult

SpecAscii == InitAscii /\ [][NextAscii]_vars

----------------------------------------------------------------------------
(* One library handle whose callers keep and change the lists it returns. *)

\* str.lower() on the characters of the names.
Lower(c) == CASE c = "X" -> "x" [] c = "Y" -> "y" [] OTHER -> c

LowerStr(str) == [i \in 1..Len(str) |-> Lower(str[i])]

\* A regex of literal characters, given as a str or as a compiled pattern that
\* does not ignore case.
Regex(compiled, text) == [compiled |-> compiled, text |-> text]

RegexChoices ==
    { Regex(FALSE, <<"x">>), Regex(TRUE, <<"x">>), Regex(FALSE, <<"1", "0">>) }

\* pattern.search(s) is not None; a str is compiled with re.IGNORECASE.
Search(regex, s) ==
    IF regex.compiled THEN Contains(s, regex.text)
    ELSE Contains(LowerStr(s), LowerStr(regex.text))

\* Splib07.search_spectra: a new list of the names of list_spectra() that match.
search_spectra(root, memo, regex) ==
    LET ls == ListSpectraCached(root, memo)
    IN  IF ls.res.exc # "None" THEN ls
        ELSE [res |-> Return(SelectSeq(ls.res.value, LAMBDA s : Search(regex, s)), 0),
              memo |-> ls.memo]

CallSearchSpectra ==
    /\ call = Idle
    /\ \E regex \in RegexChoices :
          \E r \in { search_spectra(lib.root, lib.memo, regex) } :
             /\ lib' = [lib EXCEPT !.memo = r.memo]
             /\ call' = [op |-> "search_spectra",
                         args |-> [NoArgs EXCEPT !.name = regex.text,
                                      !.format = IF regex.compiled THEN "pattern" ELSE "str"],
                         res |-> r.res, trace |-> Trace(<<>>, 0)]
    /\ UNCHANGED ivars
    /\ UNCHANGED cvars

\* list.pop(0), list.append(x), list.reverse()
ListEdits == {"pop", "append", "reverse"}

AppendChoices == { <<"X">>, <<"cvNONE">> }

EditList(list, edit, x) ==
    CASE edit = "pop" -> Tail(list)
      [] edit = "append" -> Append(list, x)
      [] OTHER -> [i \in 1..Len(list) |-> list[Len(list) + 1 - i]]

\* The caller changes the list the last call returned.  list_spectra and
\* list_resamplings return the list object their cache holds, so the change is
\* made to the cached list; search_spectra returns a list of its own.
CallerModifiesList ==
    /\ call.op \in {"list_spectra", "list_resamplings", "search_spectra"}
    /\ call.res.exc = "None"
    /\ ctl.nmut < MaxMutations
    /\ \E edit \in ListEdits, x \in AppendChoices :
          /\ edit = "pop" => call.res.value # <<>>
          /\ \E edited \in { EditList(call.res.value, edit, x) } :
                /\ call' = [call EXCEPT !.res.value = edited]
                /\ lib' = IF call.op = "list_spectra"
                          THEN [lib EXCEPT !.memo.spectra = Some(edited)]
                          ELSE IF call.op = "list_resamplings"
                          THEN [lib EXCEPT !.memo.resamplings = Some(edited)]
                          ELSE lib
    /\ ctl' = [ctl EXCEPT !.nmut = @ + 1]
    /\ UNCHANGED <<cache, heap, pc, cur, lastcall, held, firstInst>>
    /\ UNCHANGED ivars

\* A handle on an archive that holds every spectrum at every sampling.
InitShared ==
    /\ InitLoad
    /\ \E order \in IdOrders :
          lib.root = Archive([order |-> order, asd |-> "full", aux |-> "one"])

NextShared ==
    \/ CallListSpectra
    \/ CallListResamplings
    \/ CallSearchSpectra
    \/ CallLoad
    \/ CallLoadV0
    \/ CallerModifiesList
    \/ TakeResult

SpecShared == InitShared /\ [][NextShared]_vars

----------------------------------------------------------------------------
(* What the claims expect of the inputs above, stated without the parser.   *)

\* The sampling identifier a list item's link names.
HrefSampling(h) ==
    CASE h = HrefA -> "splib07a"
      [] h = HrefB -> "splib07b"
      [] h = HrefOldA -> "splib07a"
      [] h = HrefBare -> "splib07b_cvASD"
      [] OTHER -> "splib07c"

\* The relative path a list item's link names.
HrefPath(h) == IF h = HrefBare THEN <<<<"splib07b_cvASD", ".html">>>> ELSE h

TocReadable == toc # None

TocLinks == IF TocReadable THEN toc[1] ELSE <<>>

AllLinked == \A i \in 1..Len(TocLinks) : TocLinks[i].anchor # None

UnknownAt(i) ==
    /\ TocLinks[i].anchor # None
    /\ HrefSampling(TocLinks[i].anchor[1]) \notin SamplingValues

\* The identifier of a row titled title.
TitleId(title) == <<title[1], "_", title[Len(title)]>>

GoodId(k) == <<"t", "_", ToString(k)>>

\* The positions of the required and of the optional cells of a row of n cells.
RequiredCells(n) == {2, 5, 6, n - 1, n}
OptionalCells(n) == {3, 4, 7} \cup (8..(n - 2))

\* C1: read_toc fails with UnknownSampling whenever a list item links to a
\* datatable of a sampling outside the enumeration: no mapping is returned, and
\* the item is never skipped.
C1_UnknownSamplingFails ==
    (ret.op = "read_toc" /\ \E i \in 1..Len(TocLinks) : UnknownAt(i))
        => /\ ret.res.exc # "None"
           /\ ret.res.value = <<>>
           /\ AllLinked => (ret.res.exc = "ValueError" /\ ret.res.site = "Sampling")

C1_Witness ==
    /\ ret.op = "read_toc"
    /\ Len(TocLinks) >= 2
    /\ AllLinked
    /\ ~UnknownAt(1)
    /\ UnknownAt(2)
    /\ ret.res.exc = "ValueError"

\* C2: read_datatable fails with StructuralMismatch, before any row is decoded,
\* iff the document does not hold len(Chapter) + 1 tables; with 8 tables the
\* first is ignored and table k + 1 populates chapter k.
C2_TableCount ==
    ret.op = "read_datatable" =>
        /\ docp.n # NumChapters + 1 =>
              /\ ret.res.exc = "ValueError"
              /\ ret.res.site = "tables"
              /\ ret.res.decoded = 0
        /\ docp.n = NumChapters + 1 =>
              /\ ret.res.site # "tables"
              /\ docp.p = 1 => ret.res.exc = "None"
              /\ ret.res.exc = "None" =>
                    \A k \in 1..NumChapters :
                       /\ DOMAIN ret.res.value[k].map =
                             {GoodId(k + 1)} \cup
                             (IF docp.p = k + 1 THEN {TitleId(docp.title)} ELSE {})
                       /\ docp.p # k + 1 =>
                             ret.res.value[k].map[GoodId(k + 1)].description =
                                 Some(<<Seg(".."), Seg("2"), <<"t", " ", ToString(k + 1)>>>>)

C2_Witness ==
    /\ ret.op = "read_datatable"
    /\ docp.n = NumChapters + 1
    /\ docp.p = 1
    /\ docp.missing = 5
    /\ ret.res.exc = "None"
    /\ DOMAIN ret.res.value[NumChapters].map = {GoodId(NumChapters + 1)}

\* The field of entry e that the cell at position i of a row of n cells fills.
FieldAt(e, i, n) ==
    CASE i = 3 -> e.spectrum_asciidata
      [] i = 4 -> e.error_asciidata
      [] i = 7 -> e.range_plot
      [] OTHER -> e.extra_range_plots[i - LeadingCells]

\* C3: a required cell without a link makes read_datatable fail with
\* MissingRequiredField carrying the row's cells; an optional cell without a
\* link is recorded as absent and the row is still inserted.
C3_MissingLink ==
    (/\ ret.op = "read_datatable"
     /\ docp.n = NumChapters + 1
     /\ docp.p > 1
     /\ docp.cells >= LeadingCells + TrailingCells)
        => /\ docp.missing \in RequiredCells(docp.cells) =>
                 /\ ret.res.exc = "ValueError"
                 /\ ret.res.site = "row:anchor"
                 /\ ret.res.row = SpecialRow(docp)
           /\ docp.missing \in OptionalCells(docp.cells) =>
                 /\ ret.res.exc = "None"
                 /\ TitleId(docp.title) \in DOMAIN ret.res.value[docp.p - 1].map
                 /\ LET e == ret.res.value[docp.p - 1].map[TitleId(docp.title)]
                    IN  /\ FieldAt(e, docp.missing, docp.cells) = None
                        /\ e.description = Some(<<Seg(".."), Seg("2"), docp.title>>)
                        /\ \A i \in OptionalCells(docp.cells) \ {docp.missing} :
                              FieldAt(e, i, docp.cells) # None

C3_Witness ==
    /\ ret.op = "read_datatable"
    /\ docp.n = NumChapters + 1
    /\ docp.p = 3
    /\ docp.cells = LeadingCells + TrailingCells + 2
    /\ docp.missing = LeadingCells + 2
    /\ ret.res.exc = "None"
    /\ ret.res.value[2].map[TitleId(docp.title)].extra_range_plots = <<Some(CellHref(8, docp.title)), None>>

\* The samplings the table of contents names, and the link that names each last.
TocSamplings == { HrefSampling(TocLinks[i].anchor[1]) : i \in 1..Len(TocLinks) }

LastLink(s) ==
    LET i == CHOOSE j \in 1..Len(TocLinks) :
                 /\ HrefSampling(TocLinks[j].anchor[1]) = s
                 /\ \A m \in (j + 1)..Len(TocLinks) :
                       HrefSampling(TocLinks[m].anchor[1]) # s
    IN  TocLinks[i].anchor[1]

DatatableOf(s) == ReadFile(fsel, <<Seg("indexes")>> \o HrefPath(LastLink(s)))

\* C4: generate_index returns an index whose samplings are exactly those of the
\* table of contents, each holding read_datatable of its own relative path.
C4_ExactlyTocSamplings ==
    (ret.op = "generate_index" /\ ret.res.exc = "None")
        => /\ TocReadable /\ AllLinked
           /\ DOMAIN ret.res.value.map = TocSamplings
           /\ \A s \in TocSamplings :
                 ret.res.value.map[s] = _read_datatable(DatatableOf(s)).value

C4_Witness ==
    /\ ret.op = "generate_index"
    /\ ret.res.exc = "None"
    /\ Len(TocLinks) = 3
    /\ TocLinks[1].anchor = Some(HrefA)
    /\ TocLinks[3].anchor = Some(HrefOldA)
    /\ DOMAIN ret.res.value.map = {"splib07a", "splib07b"}
    /\ fsel.a = "tables7"

\* C5: generate_index is all-or-nothing: a failure of the table of contents or
\* of any sampling's datatable propagates, and no index is returned.
C5_AllOrNothing ==
    ret.op = "generate_index" =>
        LET failing ==
                \/ ~TocReadable
                \/ ~AllLinked
                \/ \E i \in 1..Len(TocLinks) : UnknownAt(i)
                \/ \E s \in TocSamplings : _read_datatable(DatatableOf(s)).exc # "None"
        IN  /\ failing => (ret.res.exc # "None" /\ ret.res.value = <<>>)
            /\ ~failing => ret.res.exc = "None"

C5_Witness ==
    /\ ret.op = "generate_index"
    /\ TocLinks = <<[anchor |-> Some(HrefA)], [anchor |-> Some(HrefB)]>>
    /\ fsel.a = "good"
    /\ fsel.b = "norequired"
    /\ ret.res.exc = "ValueError"
    /\ ret.res.site = "row:anchor"

\* C6: with one caller at a time, the blob is deserialized once: a call begun
\* after a call has returned deserializes nothing and returns the instance the
\* first successful call returned.
C6_DeserializedOnce ==
    /\ Len(heap) <= 1
    /\ \A t \in Threads :
          (lastcall[t].status = "returned" /\ lastcall[t].late)
              => /\ ~lastcall[t].loaded
                 /\ lastcall[t].inst = firstInst[1]

C6_Witness ==
    /\ ctl.maxActive = 1
    /\ ctl.ncalls >= 2
    /\ Len(heap) = 1
    /\ \E t \in Threads :
          /\ lastcall[t].status = "returned"
          /\ lastcall[t].late
          /\ lastcall[t].inst = 1

\* C7: with concurrent callers, the cached index is initialized at most once:
\* at most one caller deserializes and all callers receive the same instance.
C7_InitializedAtMostOnce ==
    /\ Len(heap) <= 1
    /\ \A t, u \in Threads :
          (lastcall[t].status = "returned" /\ lastcall[u].status = "returned")
              => lastcall[t].inst = lastcall[u].inst

\* C8: an index, once built or loaded, never changes: no step of a holder adds,
\* removes or replaces a sampling, a chapter entry or a field of an entry.
C8_IndexImmutable ==
    [][\A i \in 1..Len(heap) : heap'[i] = heap[i]]_vars

\* The identifiers of the library: the spectra of the measured directory.
LibraryIds == {IdX1, IdX10, IdY}

\* The sampling names available in an archive: the two fixed names and the
\* suffix of every directory ASCIIdata_splib07b_<name>.
AvailableSamplings(root) ==
    { <<"measured">>, <<"oversampled">> }
    \cup { <<"cvASD">> : i \in { j \in 1..Len(root) :
                                   root[j].name = <<"ASCIIdata_", "splib07b", "_", "cvASD">> } }

IsLoad == call.op \in {"load", "load_v0"}

FailsWith(site) ==
    /\ call.res.exc = "ValueError"
    /\ call.res.site = site
    /\ call.res.value = <<>>
    /\ call.trace = Trace(<<>>, 0)

\* C9: a load of an identifier that is not in the library fails with the error
\* of an unknown spectrum, and a load of a library identifier at a sampling name
\* that is not available fails with the error of an unknown resampling, under
\* every deleted policy and format, with nothing read and nothing returned.
C9_UnknownRequestFails ==
    IsLoad =>
        /\ call.args.name \notin LibraryIds => FailsWith("unknown spectra")
        /\ ( /\ call.args.name \in LibraryIds
             /\ IsStr(call.args.resample)
             /\ call.args.resample.name \notin AvailableSamplings(lib.root) )
               => FailsWith("unknown resampling")

\* An identifier that is part of a file name, asked for with the policy "drop",
\* is refused as unknown.
C9_Witness ==
    /\ call.op = "load"
    /\ call.args.name = <<"X">>
    /\ call.args.deleted = "drop"
    /\ call.args.format = "spectral"
    /\ FailsWith("unknown spectra")

\* The number of the directory a sampling name stands for.
DirNumber(name) ==
    IF name = <<"measured">> THEN 1 ELSE IF name = <<"oversampled">> THEN 2 ELSE 3

\* C10: load of a named sampling reads that sampling's own directory and never
\* resamples; load of a band model reads no sampling but "oversampled" and,
\* when it returns, has read it and resampled exactly once.
C10_ResampleDispatch ==
    call.op = "load" =>
        LET resample == call.args.resample
            returned == call.res.exc = "None"
        IN  IF IsStr(resample)
            THEN /\ call.trace.nresample = 0
                 /\ \A i \in 1..Len(call.trace.loaded) :
                       call.trace.loaded[i] = resample.name
                 /\ returned => call.trace.loaded = <<resample.name>>
                 /\ (returned /\ call.args.format = "raw")
                       => call.res.value.spectrum[1] \div 100 = DirNumber(resample.name)
            ELSE /\ \A i \in 1..Len(call.trace.loaded) :
                       call.trace.loaded[i] = <<"oversampled">>
                 /\ call.trace.nresample <= 1
                 /\ call.trace.nresample = 1 => call.trace.loaded = <<<<"oversampled">>>>
                 /\ returned => /\ call.trace.loaded = <<<<"oversampled">>>>
                                /\ call.trace.nresample = 1

\* A load of a pair of centers and widths returns after one resampling of the
\* oversampled data.
C10_Witness ==
    /\ call.op = "load"
    /\ call.args.resample.kind = "tuple"
    /\ call.res.exc = "None"
    /\ call.trace = Trace(<<<<"oversampled">>>>, 1)

\* A load of a named sampling returns that sampling's data without resampling.
C10_WitnessNamed ==
    /\ call.op = "load"
    /\ call.args.resample = Named(<<"cvASD">>)
    /\ call.args.format = "raw"
    /\ call.res.exc = "None"
    /\ call.trace = Trace(<<<<"cvASD">>>>, 0)

\* The indices of arr whose value lies in the closed deleted range.
DeletedIdx(arr) ==
    { i \in 1..Len(arr) : DeletedRangeStart <= arr[i] /\ arr[i] <= DeletedRangeEnd }

\* arr without the bands idx, the other bands in their order.
RECURSIVE WithoutFrom(_, _, _)
WithoutFrom(arr, idx, i) ==
    IF i > Len(arr) THEN <<>>
    ELSE (IF i \in idx THEN <<>> ELSE <<arr[i]>>) \o WithoutFrom(arr, idx, i + 1)

Without(arr, idx) == WithoutFrom(arr, idx, 1)

\* What the last request returns under the policy "sigil": the raw arrays.
RawOutcome ==
    load(lib.root, lib.memo, call.args.name, call.args.resample, "sigil", "raw").res

\* C11: a load of a named sampling with the policy "drop", of a spectrum whose
\* raw arrays can be read, returns the three raw arrays without the bands where
\* the spectrum holds the deleted marker.
C11_DropAligned ==
    ( /\ call.op = "load"
      /\ call.args.deleted = "drop"
      /\ call.args.format = "raw"
      /\ IsStr(call.args.resample)
      /\ RawOutcome.exc = "None" )
        => /\ call.res.exc = "None"
           /\ LET raw == RawOutcome.value
                  idx == DeletedIdx(raw.spectrum)
              IN  /\ call.res.value.spectrum = Without(raw.spectrum, idx)
                  /\ call.res.value.wavelengths = Without(raw.wavelengths, idx)
                  /\ call.res.value.fwhm = Without(raw.fwhm, idx)

\* C12: under the policy "nan" the array read has not-a-number exactly where the
\* raw value lies in the closed deleted range and the raw value elsewhere, at
\* the same length; under "sigil" it is the raw array.
C12_NanExactlyInRange ==
    call.op = "_load_asciidata" =>
        LET raw == call.args.data
            out == call.res.value
        IN  /\ call.args.deleted = "nan" =>
                  /\ call.res.exc = "None"
                  /\ Len(out) = Len(raw)
                  /\ \A i \in 1..Len(raw) :
                        out[i] = IF i \in DeletedIdx(raw) THEN NaN ELSE raw[i]
            /\ call.args.deleted = "sigil" =>
                  /\ call.res.exc = "None"
                  /\ out = raw

\* Both ends of the range and a neighbour of the range are read under "nan".
C12_Witness ==
    /\ call.op = "_load_asciidata"
    /\ call.args.deleted = "nan"
    /\ call.args.data = <<DeletedRangeStart, DeletedRangeEnd, DeletedRangeEnd + 1>>
    /\ call.res.value = <<NaN, NaN, DeletedRangeEnd + 1>>

\* The identifiers that have a spectrum file in the directory of a sampling.
IdsOfSampling(root, sampling) ==
    LET dir == FindDir(root, <<"ASCIIdata_">> \o ResamplingLabel(sampling))
        files == IF dir = None THEN <<>> ELSE _scan_spectra(dir[1].subdirs)
    IN  { id \in LibraryIds :
            \E i \in 1..Len(files) : Join(Middle(Split(files[i].name, <<>>))) = id }

\* The last call asked for a library identifier at an available sampling whose
\* directory has no file of it.
AsksMissingData ==
    /\ call.op = "load"
    /\ call.args.name \in LibraryIds
    /\ IsStr(call.args.resample)
    /\ call.args.resample.name \in AvailableSamplings(lib.root)
    /\ call.args.name \notin IdsOfSampling(lib.root, call.args.resample.name)
    /\ call.args.deleted # "drop"

\* C13: a load of a library identifier at an available sampling that has no
\* data for it fails with the error of missing data, which is neither the error
\* of an unknown identifier nor that of an unknown sampling.
C13_MissingData ==
    AsksMissingData =>
        /\ call.res.exc = "RuntimeError"
        /\ call.res.site = "missing resampling"
        /\ call.res.value = <<>>

\* The chapter positions whose mapping holds key k.
ChaptersOf(index, k) == { c \in 1..NumChapters : DictHas(index[c], k) }

\* C14: the view of all chapters of a sampling index is the union of its 7
\* chapter mappings, and the view of one chapter holds exactly that chapter's
\* entries.
C14_ChapterLookup ==
    ret.op = "getattr" =>
        /\ ret.res.exc = "None"
        /\ LET view == ret.res.value
               asked == IF ret.attr = "all_chapters" THEN 1..NumChapters
                        ELSE { c \in 1..NumChapters : SamplingIndexFields[c] = ret.attr }
           IN  /\ DOMAIN view.map =
                     UNION { DOMAIN ret.index[c].map : c \in asked }
               /\ \A k \in DOMAIN view.map :
                     \E c \in asked \cap ChaptersOf(ret.index, k) :
                        view.map[k] = ret.index[c].map[k]

\* The path fields of an entry that hold a path.
PathsOf(e) ==
    { f[1] : f \in { g \in { e.description, e.spectrum_asciidata, e.error_asciidata,
                             e.wavelengths_asciidata, e.bandpass_asciidata,
                             e.range_plot, e.wavelength_plot, e.bandpass_plot }
                           \cup { e.extra_range_plots[i] :
                                    i \in 1..Len(e.extra_range_plots) } :
                      g # None } }

\* href without its leading parent references.
RECURSIVE StripParents(_)
StripParents(href) ==
    IF href # <<>> /\ Head(href) = Seg("..") THEN StripParents(Tail(href)) ELSE href

\* C15: every path stored in an entry by read_datatable is its link's target
\* without the leading parent references: it does not leave the root it is
\* joined to.
C15_PathsInsideRoot ==
    (ret.op = "read_datatable" /\ ret.res.exc = "None") =>
        \A c \in 1..NumChapters :
           \A k \in DOMAIN ret.res.value[c].map :
              LET e == ret.res.value[c].map[k]
              IN  /\ \A path \in PathsOf(e) : path # <<>> => Head(path) # Seg("..")
                  /\ k = GoodId(c + 1) =>
                        e.description =
                            Some(StripParents(CellHref(2, <<"t", " ", ToString(c + 1)>>)))

GoodCells == Len(GoodRow(1))

\* C17: the entries of one chapter have the same number of extra range plots,
\* and a table holding a row with another number of cells than its neighbour
\* is rejected.
C17_UniformArity ==
    ret.op = "read_datatable" =>
        /\ ret.res.exc = "None" =>
              \A c \in 1..NumChapters :
                 \A k1, k2 \in DOMAIN ret.res.value[c].map :
                    Len(ret.res.value[c].map[k1].extra_range_plots) =
                        Len(ret.res.value[c].map[k2].extra_range_plots)
        /\ (docp.n = NumChapters + 1 /\ docp.p > 1 /\ docp.cells # GoodCells) =>
              ret.res.exc = "ValueError"

\* The position of call f in the log of a run, 0 if it was not made.
At(log, f) ==
    IF \E i \in 1..Len(log) : log[i] = f
    THEN CHOOSE i \in 1..Len(log) : log[i] = f /\ \A j \in 1..(i - 1) : log[j] # f
    ELSE 0

Count(log, f) == Cardinality({ i \in 1..Len(log) : log[i] = f })

\* C18: a run of the script opens the output path only after generate_index
\* has returned; when the generation fails the run ends with a non-zero status
\* and the output path holds what it held, and when the run ends with status 0
\* the index was written exactly once, after the generation.
C18_GenerateBeforeSave ==
    cli.status # None =>
        LET generated == generate_index(toc, fsel)
        IN  /\ At(cli.log, "lzma.open") # 0 =>
                  /\ At(cli.log, "generate_index") # 0
                  /\ At(cli.log, "generate_index") < At(cli.log, "lzma.open")
                  /\ generated.exc = "None"
            /\ (cli.argv = 2 /\ generated.exc # "None") =>
                  /\ cli.status # Some(0)
                  /\ cli.out = cli.out0
                  /\ Count(cli.log, "lzma.open") = 0
                  /\ Count(cli.log, "pickle.dump") = 0
            /\ (cli.argv = 2 /\ generated.exc = "None") =>
                  /\ Count(cli.log, "generate_index") = 1
                  /\ Count(cli.log, "lzma.open") = 1
            /\ cli.status = Some(0) =>
                  /\ generated.exc = "None"
                  /\ Count(cli.log, "pickle.dump") = 1
                  /\ At(cli.log, "generate_index") < At(cli.log, "pickle.dump")
                  /\ cli.out = Some(<<generated.value>>)

\* A run on an archive with a failing datatable, on an output path that holds
\* an older index, has ended.
C18_Witness ==
    /\ cli.status = Some(1)
    /\ cli.argv = 2
    /\ cli.out0 = Some(<<"old">>)
    /\ cli.out = Some(<<"old">>)
    /\ toc = DefaultToc
    /\ fsel.b = "tables9"
    /\ cli.log = <<"parse_args", "generate_index">>

\* The first value of the file of spectrum id in the directory of a sampling.
OwnFirst(sampling, id) == 100 * DirNumber(sampling) + 10 * IdNumber(id) + 1

\* The reflectances the last load returned.
LoadedSpectrum ==
    IF call.args.format = "onlyspectra" THEN call.res.value
    ELSE IF call.args.format = "spectral" THEN call.res.value.data[1]
    ELSE call.res.value.spectrum

\* C19: a load of a library identifier at a named sampling that returns, returns
\* the reflectances of that identifier's own file in the sampling's directory,
\* also when the identifier is part of another spectrum's file name.
C19_OwnFile ==
    (/\ IsLoad
     /\ IsStr(call.args.resample)
     /\ call.args.name \in LibraryIds
     /\ call.res.exc = "None")
        => LoadedSpectrum[1] = OwnFirst(call.args.resample.name, call.args.name)

\* C20: whatever the callers did with the lists they were handed, a call of
\* list_spectra returns the identifiers of the archive in ascending order, and
\* load refuses an identifier as unknown exactly when the archive lacks it.
C20_ListingIntact ==
    /\ ListSpectraCached(lib.root, lib.memo).res = list_spectra(lib.root)
    /\ list_spectra(lib.root).value = Sort(list_spectra(lib.root).value)
    /\ { list_spectra(lib.root).value[i] : i \in 1..Len(list_spectra(lib.root).value) }
          = LibraryIds
    /\ IsLoad => (call.res.site = "unknown spectra" <=> call.args.name \notin LibraryIds)

====
